---- MODULE Spec2Model ----
(***************************************************************************)
(* A model of simple-temperature-endpoint/temperature_api.go: the          *)
(* TemperatureApi store (a Go map from device ID to DeviceData guarded by  *)
(* a sync.RWMutex), PostTemperature and GetTemperature, called by          *)
(* concurrent goroutines.  Go slices are modelled as headers over backing  *)
(* arrays in a heap, so that in-place append and sort are visible through  *)
(* every header that shares the array.                                     *)
(***************************************************************************)
EXTENDS Integers, Sequences, FiniteSets, Bags, TLC

\* ---------------------------------------------------------------- bounds
MaxPosts == 4        \* most samples recorded in a run of concurrent callers
SeqMaxPosts == 3     \* most samples recorded in a run of the single caller

\* const MaxDataPoints, line 10: 10000 in the program, which declares it and
\* never reads it; scaled down here, below the most samples a run records,
\* so that devices come to hold that many samples and more
MaxDataPoints == 2

\* ---------------------------------------------------------------- inputs
Procs == {"p1", "p2", "p3"}
Devices == {"d1", "d2"}
DeviceIDs == Devices \cup {""}
DeviceTypes == {"", "t1", "t2"}
Times == {1, 2, 3}
Temps == {20, 21}

\* the arguments PostTemperature is called with: every valid combination,
\* and the invalid ones (an empty ID, an empty type, both) with one
\* timestamp and temperature, which the validation never reads
PostInputs ==
    {x \in DeviceIDs \X DeviceTypes \X Times \X Temps :
        (x[1] = "" \/ x[2] = "") => (x[3] = 1 /\ x[4] = 20)}

\* the arguments GetTemperature is called with: every range for a device,
\* a rising and a falling range for the empty ID
GetInputs ==
    {x \in DeviceIDs \X Times \X Times :
        x[1] = "" => x[2] # x[3] /\ x[2] + x[3] = 3}

\* the inputs of the single caller, and how many samples it may record
AllInputs == [posts |-> PostInputs, gets |-> GetInputs, max |-> SeqMaxPosts]

\* the narrower inputs of the runs with several concurrent callers
FewInputs == [posts |-> {"d1"} \X {"t1"} \X {1, 2} \X {20},
              gets |-> {<<"d1", 1, 2>>, <<"d1", 2, 2>>, <<"d1", 2, 1>>},
              max |-> MaxPosts]

\* error values: "" is Go's nil error
NoError == ""
ErrEmptyID == "device ID cannot be empty"
ErrEmptyType == "device type cannot be empty"
ErrNoData == "no data for this device ID"
ErrEndBeforeStart == "end time cannot be before start time"

rwmutexMaxReaders == 1073741824

\* ---------------------------------------------------------------- slices
\* A slice header: backing array, offset into it, length and capacity.
NilArr == <<"nil", 0>>
ZeroBase == <<"zerobase", 0>>
NilSlice == [arr |-> NilArr, off |-> 0, len |-> 0, cap |-> 0]
EmptySlice == [arr |-> ZeroBase, off |-> 0, len |-> 0, cap |-> 0]

ZeroPoint == [Timestamp |-> 0, Temperature |-> 0]
DataPoint(t, v) == [Timestamp |-> t, Temperature |-> v]

ZeroDeviceData == [DeviceType |-> "", DataPoints |-> NilSlice]
ZeroResponseBody == [DeviceID |-> "", DeviceType |-> "", DataPoints |-> NilSlice]

Caps == {1, 2, 4, 8}
ArrIds == Devices \X Caps

\* the elements a header shows, read from heap h
Elems(h, sl) == [i \in 1..sl.len |-> h[sl.arr][sl.off + i]]

\* time.Time Before / After
Before(a, b) == a < b
After(a, b) == a > b

\* runtime.growslice for a one-element append: the new capacity
GrowCap(oldCap, newLen) ==
    IF newLen > 2 * oldCap THEN newLen ELSE 2 * oldCap

\* an append that grows the array without copying the old elements over
AppendPointNoCopy(h, sl, x, id) ==
    IF sl.len < sl.cap
    THEN [heap |-> [h EXCEPT ![sl.arr] = [@ EXCEPT ![sl.off + sl.len + 1] = x]],
          slice |-> [sl EXCEPT !.len = @ + 1]]
    ELSE LET nc == GrowCap(sl.cap, sl.len + 1)
             na == <<id, nc>>
         IN [heap |-> [h EXCEPT ![na] =
                          [i \in 1..nc |-> IF i = sl.len + 1 THEN x
                                           ELSE ZeroPoint]],
             slice |-> [arr |-> na, off |-> 0, len |-> sl.len + 1, cap |-> nc]]

\* an append that enforces the bound: a slice holding MaxDataPoints elements
\* is left as it is
AppendPointCapped(h, sl, x, id) ==
    IF sl.len >= MaxDataPoints
    THEN [heap |-> h, slice |-> sl]
    ELSE IF sl.len < sl.cap
    THEN [heap |-> [h EXCEPT ![sl.arr] = [@ EXCEPT ![sl.off + sl.len + 1] = x]],
          slice |-> [sl EXCEPT !.len = @ + 1]]
    ELSE LET nc == GrowCap(sl.cap, sl.len + 1)
             na == <<id, nc>>
             old == Elems(h, sl)
         IN [heap |-> [h EXCEPT ![na] =
                          [i \in 1..nc |-> IF i <= sl.len THEN old[i]
                                           ELSE IF i = sl.len + 1 THEN x
                                           ELSE ZeroPoint]],
             slice |-> [arr |-> na, off |-> 0, len |-> sl.len + 1, cap |-> nc]]

\* append(sl, x) for device id: in place when capacity allows, otherwise
\* into a freshly allocated array (named by the device and its capacity)
AppendPoint(h, sl, x, id) ==
    IF sl.len < sl.cap
    THEN [heap |-> [h EXCEPT ![sl.arr] = [@ EXCEPT ![sl.off + sl.len + 1] = x]],
          slice |-> [sl EXCEPT !.len = @ + 1]]
    ELSE LET nc == GrowCap(sl.cap, sl.len + 1)
             na == <<id, nc>>
             old == Elems(h, sl)
         IN [heap |-> [h EXCEPT ![na] =
                          [i \in 1..nc |-> IF i <= sl.len THEN old[i]
                                           ELSE IF i = sl.len + 1 THEN x
                                           ELSE ZeroPoint]],
             slice |-> [arr |-> na, off |-> 0, len |-> sl.len + 1, cap |-> nc]]

\* the less function of line 66
Less(a, b) == Before(a.Timestamp, b.Timestamp)

IsSorted(s) == \A i \in 1..(Len(s) - 1) : ~Less(s[i + 1], s[i])

\* the sort left out
SortSliceSkipped(s) == {s}

\* sort.Slice is not stable: every arrangement of s that the less function
\* accepts as sorted is a possible outcome
SortSlice(s) ==
    {t \in {[i \in 1..Len(s) |-> s[f[i]]] : f \in Permutations(1..Len(s))} :
        IsSorted(t)}

\* the heap after sorting in place the elements header sl shows, as t
WriteBack(h, sl, t) ==
    [h EXCEPT ![sl.arr] =
        [i \in 1..Len(@) |-> IF i > sl.off /\ i <= sl.off + sl.len
                             THEN t[i - sl.off] ELSE @[i]]]

\* sort.Search(n, f): f is given as the function pred on 0..n-1
RECURSIVE SearchLoop(_, _, _)
SearchLoop(i, j, pred) ==
    IF i < j
    THEN LET h == (i + j) \div 2
         IN IF ~pred[h] THEN SearchLoop(h + 1, j, pred)
                        ELSE SearchLoop(i, h, pred)
    ELSE i

Search(n, pred) == SearchLoop(0, n, pred)

\* data.DataPoints[i:j]
SubSlice(sl, i, j) ==
    [arr |-> sl.arr, off |-> sl.off + i, len |-> j - i, cap |-> sl.cap - i]

\* the garbage collector: arrays that no header in roots points to are freed
Collect(h, roots) ==
    [a \in DOMAIN h |-> IF \E sl \in roots : sl.arr = a THEN h[a] ELSE <<>>]

\* ------------------------------------------------- pure parts of the calls
\* the validation with its two checks in the other order
ValidatePostTypeFirst(sensorID, deviceType) ==
    IF deviceType = "" THEN ErrEmptyType
    ELSE IF sensorID = "" THEN ErrEmptyID
    ELSE NoError

\* PostTemperature, lines 38-44: the error of the input validation
ValidatePost(sensorID, deviceType) ==
    IF sensorID = "" THEN ErrEmptyID
    ELSE IF deviceType = "" THEN ErrEmptyType
    ELSE NoError

\* the validation with the range check before the existence check
ValidateGetRangeFirst(ok, startTime, endTime) ==
    IF Before(endTime, startTime) THEN ErrEndBeforeStart
    ELSE IF ~ok THEN ErrNoData
    ELSE NoError

\* GetTemperature, lines 81-88, given the outcome ok of the map lookup
ValidateGet(ok, startTime, endTime) ==
    IF ~ok THEN ErrNoData
    ELSE IF Before(endTime, startTime) THEN ErrEndBeforeStart
    ELSE NoError

\* server.Data[id]: Go returns the zero value if the key is not found
MapGet(D, id) == IF id \in DOMAIN D THEN D[id] ELSE ZeroDeviceData

\* an assignment that only replaces the value of a key the map already has
MapSetExistingOnly(D, id, v) == [k \in DOMAIN D |-> IF k = id THEN v ELSE D[k]]

\* an assignment that replaces the whole map by the one entry
MapSetAlone(D, id, v) == [k \in {id} |-> v]

\* server.Data[id] = v
MapSet(D, id, v) == [k \in (DOMAIN D) \cup {id} |-> IF k = id THEN v ELSE D[k]]

\* a type that is set by the first PostTemperature only
KeepDeviceType(deviceData, deviceType) ==
    IF deviceData.DeviceType = ""
    THEN [deviceData EXCEPT !.DeviceType = deviceType]
    ELSE deviceData

\* line 56: deviceData.DeviceType = deviceType
SetDeviceType(deviceData, deviceType) ==
    [deviceData EXCEPT !.DeviceType = deviceType]

\* no fast path: every range goes on to the two searches
OutsideRangeNever(pts, startTime, endTime) == FALSE

\* line 118: the requested range is fully outside of the available data
OutsideRange(pts, startTime, endTime) ==
    LET left == pts[1].Timestamp
        right == pts[Len(pts)].Timestamp
    IN After(startTime, right) \/ Before(endTime, left)

\* a range outside of the data reported as a missing device
OutsideAsNoData == [body |-> ZeroResponseBody, err |-> ErrNoData]

\* line 119: return ResponseBody{}, nil
OutsideResult == [body |-> ZeroResponseBody, err |-> NoError]

\* the start of the range taken as exclusive
StartPredExclusive(pts, startTime) ==
    [i \in 0..(Len(pts) - 1) |-> After(pts[i + 1].Timestamp, startTime)]

\* lines 128-130 and 132-134: the two predicates handed to sort.Search
StartPred(pts, startTime) ==
    [i \in 0..(Len(pts) - 1) |-> ~Before(pts[i + 1].Timestamp, startTime)]

\* the end of the range taken as exclusive
EndPredExclusive(pts, endTime) ==
    [i \in 0..(Len(pts) - 1) |-> ~Before(pts[i + 1].Timestamp, endTime)]

\* the end predicate with its comparison turned around
EndPredReversed(pts, endTime) ==
    [i \in 0..(Len(pts) - 1) |-> Before(pts[i + 1].Timestamp, endTime)]

EndPred(pts, endTime) ==
    [i \in 0..(Len(pts) - 1) |-> After(pts[i + 1].Timestamp, endTime)]

ErrPanic == "panic: slice bounds out of range"

\* GetTemperature, lines 95-143, run against map D and heap h
GetLocked(h, D, deviceID, startTime, endTime) ==
    LET data == MapGet(D, deviceID)
        pts == Elems(h, data.DataPoints)
        n == data.DataPoints.len
    IN IF n = 0
       THEN [body |-> [DeviceID |-> deviceID, DeviceType |-> data.DeviceType,
                       DataPoints |-> EmptySlice],
             err |-> NoError]
       ELSE IF OutsideRange(pts, startTime, endTime)
       THEN OutsideResult
       ELSE LET startIndex == Search(n, StartPred(pts, startTime))
                endIndex == Search(n, EndPred(pts, endTime))
            IN IF startIndex > endIndex
               THEN [body |-> ZeroResponseBody, err |-> ErrPanic]
               ELSE [body |-> [DeviceID |-> deviceID,
                               DeviceType |-> data.DeviceType,
                               DataPoints |-> SubSlice(data.DataPoints,
                                                       startIndex, endIndex)],
                     err |-> NoError]

\* ------------------------------------------------------------------ state
VARIABLES
    Data,       \* server.Data: the map from device ID to DeviceData
    heap,       \* the backing arrays of the DataPoints slices
    mutex,      \* server.mutex, a sync.RWMutex
    pc,         \* where each goroutine stands
    call,       \* the arguments of each goroutine's current or last call
    local,      \* PostTemperature's local deviceData
    ret,        \* what each goroutine's last call returned
    fatal,      \* the runtime has thrown a fatal error: the process is dead
    recorded,   \* history: the bag of samples recorded for each device by
                \* the PostTemperature calls that have returned nil
    lastType    \* history: the type given to the last of those calls

vars == <<Data, heap, mutex, pc, call, local, ret, fatal, recorded, lastType>>

NoCall == [op |-> "none", deviceID |-> "", deviceType |-> "",
           startTime |-> 0, endTime |-> 0, temperature |-> 0]
PostArgs(id, ty, t, v) == [op |-> "Post", deviceID |-> id, deviceType |-> ty,
                           startTime |-> t, endTime |-> 0, temperature |-> v]
GetArgs(id, s, e) == [op |-> "Get", deviceID |-> id, deviceType |-> "",
                      startTime |-> s, endTime |-> e, temperature |-> 0]
NoRet == [body |-> ZeroResponseBody, err |-> NoError]

\* Init(), lines 32-34, and the zero RWMutex
Init ==
    /\ Data = [k \in {} |-> ZeroDeviceData]
    /\ heap = [a \in ArrIds |-> <<>>]
    /\ mutex = [w |-> "", readerCount |-> 0, readerWait |-> 0,
                writerSem |-> 0, readerSem |-> 0]
    /\ pc = [p \in Procs |-> "idle"]
    /\ call = [p \in Procs |-> NoCall]
    /\ local = [p \in Procs |-> ZeroDeviceData]
    /\ ret = [p \in Procs |-> NoRet]
    /\ fatal = FALSE
    /\ recorded = [d \in Devices |-> EmptyBag]
    /\ lastType = [d \in Devices |-> ""]

\* samples stored or about to be stored, over all devices
Stored == LET n(id) == MapGet(Data, id).DataPoints.len
          IN n("d1") + n("d2")
InFlight == Cardinality({q \in Procs : pc[q] \in {"r_lock", "r_wait", "r_body"}})

\* the slice headers the program still holds, given map D and the
\* goroutines' locals L and results R
Roots(D, L, R) ==
    {D[id].DataPoints : id \in DOMAIN D}
        \cup {L[p].DataPoints : p \in Procs}
        \cup {R[p].body.DataPoints : p \in Procs}

\* return from a call: the goroutine is idle again and holds the result
Return(p, body, err) ==
    /\ pc' = [pc EXCEPT ![p] = "idle"]
    /\ ret' = [ret EXCEPT ![p] = [body |-> body, err |-> err]]

\* ----------------------------------------------------------- sync.RWMutex
\* RLock: readerCount.Add(1); a negative count means a writer is pending
RLockAdd(m) == [m EXCEPT !.readerCount = @ + 1]

\* a read lock that admits one reader at a time
RLockExclusive(m) == m.readerCount # 1

\* a read lock that does not wait for the writer
RLockNeverWaits(m) == FALSE

RLockMustWait(m) == m.readerCount < 0

\* RUnlock: readerCount.Add(-1); with a writer pending, the last departing
\* reader releases writerSem
RUnlockMutex(m) ==
    LET r == m.readerCount - 1
    IN IF r < 0
       THEN [m EXCEPT !.readerCount = r,
                      !.readerWait = @ - 1,
                      !.writerSem = IF m.readerWait - 1 = 0 THEN @ + 1 ELSE @]
       ELSE [m EXCEPT !.readerCount = r]

\* Lock: take w, announce the writer to the readers, count the active ones
LockMutex(m, p) ==
    LET r == m.readerCount
    IN [m EXCEPT !.w = p,
                 !.readerCount = @ - rwmutexMaxReaders,
                 !.readerWait = @ + r]
LockMustWait(m) == m.readerWait # 0

\* Unlock: announce no writer, release every blocked reader, release w
UnlockMutex(m) ==
    LET r == m.readerCount + rwmutexMaxReaders
    IN [m EXCEPT !.w = "",
                 !.readerCount = r,
                 !.readerSem = @ + r]

\* -------------------------------------------------------- PostTemperature
\* the call and its input validation, lines 36-44; the caller lets go of
\* the result of its previous call
PostCall(p, in) ==
    /\ ~fatal
    /\ pc[p] = "idle"
    /\ \E x \in in.posts :
          LET id == x[1]
              ty == x[2]
              err == ValidatePost(id, ty)
          IN /\ call' = [call EXCEPT ![p] = PostArgs(id, ty, x[3], x[4])]
             /\ IF err # NoError
                THEN Return(p, ZeroResponseBody, err)
                ELSE /\ Stored + InFlight < in.max
                     /\ pc' = [pc EXCEPT ![p] = "r_lock"]
                     /\ ret' = [ret EXCEPT ![p] = NoRet]
    /\ heap' = Collect(heap, Roots(Data, local, ret'))
    /\ UNCHANGED <<Data, mutex, local, fatal, recorded, lastType>>

\* server.mutex.Lock(), line 48
PostLock(p) ==
    /\ ~fatal
    /\ pc[p] = "r_lock"
    /\ mutex.w = ""
    /\ mutex' = LockMutex(mutex, p)
    /\ pc' = [pc EXCEPT ![p] = IF LockMustWait(mutex') THEN "r_wait"
                                                       ELSE "r_body"]
    /\ UNCHANGED <<Data, heap, call, local, ret, fatal, recorded, lastType>>

\* Lock() blocked on writerSem until the active readers have left
PostLockWait(p) ==
    /\ ~fatal
    /\ pc[p] = "r_wait"
    /\ mutex.writerSem > 0
    /\ mutex' = [mutex EXCEPT !.writerSem = @ - 1]
    /\ pc' = [pc EXCEPT ![p] = "r_body"]
    /\ UNCHANGED <<Data, heap, call, local, ret, fatal, recorded, lastType>>

\* lines 51-67: read the entry, set the type, append, sort in place
PostBody(p) ==
    /\ ~fatal
    /\ pc[p] = "r_body"
    /\ LET c == call[p]
           deviceData == MapGet(Data, c.deviceID)
           app == AppendPoint(heap, deviceData.DataPoints,
                              DataPoint(c.startTime, c.temperature), c.deviceID)
       IN /\ \E t \in SortSlice(Elems(app.heap, app.slice)) :
                heap' = WriteBack(app.heap, app.slice, t)
          /\ local' = [local EXCEPT ![p] =
                         [SetDeviceType(deviceData, c.deviceType)
                              EXCEPT !.DataPoints = app.slice]]
    /\ pc' = [pc EXCEPT ![p] = "r_assign"]
    /\ UNCHANGED <<Data, mutex, call, ret, fatal, recorded, lastType>>

\* line 69: server.Data[sensorID] = deviceData
PostAssign(p) ==
    /\ ~fatal
    /\ pc[p] = "r_assign"
    /\ Data' = MapSet(Data, call[p].deviceID, local[p])
    /\ local' = [local EXCEPT ![p] = ZeroDeviceData]
    /\ heap' = Collect(heap, Roots(Data', local', ret))
    /\ pc' = [pc EXCEPT ![p] = "r_unlock"]
    /\ UNCHANGED <<mutex, call, ret, fatal, recorded, lastType>>

\* the deferred server.mutex.Unlock() of line 49 and return nil, line 71
PostUnlock(p) ==
    /\ ~fatal
    /\ pc[p] = "r_unlock"
    /\ mutex' = UnlockMutex(mutex)
    /\ Return(p, ZeroResponseBody, NoError)
    /\ recorded' = [recorded EXCEPT ![call[p].deviceID] =
                       @ (+) SetToBag({DataPoint(call[p].startTime,
                                                 call[p].temperature)})]
    /\ lastType' = [lastType EXCEPT ![call[p].deviceID] = call[p].deviceType]
    /\ UNCHANGED <<Data, heap, call, local, fatal>>

\* --------------------------------------------------------- GetTemperature
\* the call and the empty-ID check, lines 74-79; the caller lets go of the
\* result of its previous call
GetCall(p, in) ==
    /\ ~fatal
    /\ pc[p] = "idle"
    /\ \E x \in in.gets :
          /\ call' = [call EXCEPT ![p] = GetArgs(x[1], x[2], x[3])]
          /\ IF x[1] = ""
             THEN Return(p, ZeroResponseBody, ErrEmptyID)
             ELSE /\ pc' = [pc EXCEPT ![p] = "q_exists"]
                  /\ ret' = [ret EXCEPT ![p] = NoRet]
    /\ heap' = Collect(heap, Roots(Data, local, ret'))
    /\ UNCHANGED <<Data, mutex, local, fatal, recorded, lastType>>

\* the PostTemperature calls inside the map assignment of line 69
MapWriters == {q \in Procs : pc[q] = "r_assign"}

\* a lookup that reports every device as present
LookupAlwaysFound(id) == {TRUE}

\* what the lookup of line 81, made without the lock, can report: the map
\* before or after an assignment it overlaps
LookupOutcomes(id) ==
    LET before == id \in DOMAIN Data
        after(q) == id \in (DOMAIN Data) \cup {call[q].deviceID}
    IN {before} \cup {after(q) : q \in MapWriters}

\* lines 81-88: the existence check, made before the lock is taken, and the
\* range check
GetExists(p) ==
    /\ ~fatal
    /\ pc[p] = "q_exists"
    /\ \E ok \in LookupOutcomes(call[p].deviceID) :
          LET err == ValidateGet(ok, call[p].startTime, call[p].endTime)
          IN IF err # NoError
             THEN Return(p, ZeroResponseBody, err)
             ELSE /\ pc' = [pc EXCEPT ![p] = "q_rlock"]
                  /\ UNCHANGED ret
    /\ UNCHANGED <<Data, heap, mutex, call, local, fatal, recorded, lastType>>

\* the lookup of line 81 overlaps a map assignment and the runtime detects
\* it: fatal error: concurrent map read and map write
GetExistsFatal(p) ==
    /\ ~fatal
    /\ pc[p] = "q_exists"
    /\ MapWriters # {}
    /\ fatal' = TRUE
    /\ UNCHANGED <<Data, heap, mutex, pc, call, local, ret, recorded, lastType>>

\* server.mutex.RLock(), line 91
GetRLock(p) ==
    /\ ~fatal
    /\ pc[p] = "q_rlock"
    /\ mutex' = RLockAdd(mutex)
    /\ pc' = [pc EXCEPT ![p] = IF RLockMustWait(mutex') THEN "q_wait"
                                                        ELSE "q_body"]
    /\ UNCHANGED <<Data, heap, call, local, ret, fatal, recorded, lastType>>

\* RLock() blocked on readerSem until the writer unlocks
GetRLockWait(p) ==
    /\ ~fatal
    /\ pc[p] = "q_wait"
    /\ mutex.readerSem > 0
    /\ mutex' = [mutex EXCEPT !.readerSem = @ - 1]
    /\ pc' = [pc EXCEPT ![p] = "q_body"]
    /\ UNCHANGED <<Data, heap, call, local, ret, fatal, recorded, lastType>>

\* lines 95-143 under the read lock, then the deferred RUnlock of line 92
GetBody(p) ==
    /\ ~fatal
    /\ pc[p] = "q_body"
    /\ LET r == GetLocked(heap, Data, call[p].deviceID,
                          call[p].startTime, call[p].endTime)
       IN Return(p, r.body, r.err)
    /\ mutex' = RUnlockMutex(mutex)
    /\ UNCHANGED <<Data, heap, call, local, fatal, recorded, lastType>>

\* ------------------------------------------------------------ the system
\* one step of goroutine p, whose calls draw their inputs from in
Step(p, in) ==
    \/ PostCall(p, in)
    \/ PostLock(p)
    \/ PostLockWait(p)
    \/ PostBody(p)
    \/ PostAssign(p)
    \/ PostUnlock(p)
    \/ GetCall(p, in)
    \/ GetExists(p)
    \/ GetExistsFatal(p)
    \/ GetRLock(p)
    \/ GetRLockWait(p)
    \/ GetBody(p)

\* concurrent callers, narrow inputs
Next == \E p \in Procs : Step(p, FewInputs)

Spec == Init /\ [][Next]_vars

\* one caller, making one call after the other, wide inputs
SeqNext ==
    \/ PostCall("p1", AllInputs)
    \/ PostLock("p1")
    \/ PostBody("p1")
    \/ PostAssign("p1")
    \/ PostUnlock("p1")
    \/ GetCall("p1", AllInputs)
    \/ GetExists("p1")
    \/ GetRLock("p1")
    \/ GetBody("p1")

SeqSpec == Init /\ [][SeqNext]_vars

\* ------------------------------------------------------------- vocabulary
\* the samples stored for device id, in stored order
Samples(id) == Elems(heap, MapGet(Data, id).DataPoints)

\* the store as a caller can observe it: each device's type and samples
StoreView == [id \in DOMAIN Data |->
                 [DeviceType |-> Data[id].DeviceType, samples |-> Samples(id)]]

\* the samples a returned body shows
Shown(body) == Elems(heap, body.DataPoints)

\* goroutine p's last call was op and it has returned
Returned(p, op) == pc[p] = "idle" /\ call[p].op = op

NonDecreasing(s) ==
    \A i, j \in 1..Len(s) : i < j => s[i].Timestamp <= s[j].Timestamp

SeqToBag(s) ==
    [x \in {s[i] : i \in 1..Len(s)} |-> Cardinality({i \in 1..Len(s) : s[i] = x})]

InRange(x, lo, hi) == lo <= x.Timestamp /\ x.Timestamp <= hi

\* ---------------------------------------------------------------- C1
\* C1: in every reachable state, and so after every PostTemperature call
\* whatever the order of its timestamps, each device's stored samples are
\* non-decreasing by timestamp.
C1_SortInvariant == \A id \in DOMAIN Data : NonDecreasing(Samples(id))

\* a third sample was recorded with a timestamp below one already stored,
\* next to a repeated timestamp
C1_Witness ==
    /\ Returned("p1", "Post")
    /\ ret["p1"].err = NoError
    /\ LET s == Samples(call["p1"].deviceID)
       IN /\ Len(s) = 3
          /\ call["p1"].startTime = s[1].Timestamp
          /\ s[1].Timestamp < s[2].Timestamp
          /\ s[2].Timestamp = s[3].Timestamp
          /\ s[1].Temperature = call["p1"].temperature
          /\ s[2].Temperature # s[1].Temperature
          /\ s[3].Temperature # s[1].Temperature

\* ---------------------------------------------------------------- C2
\* the single caller's GetTemperature has returned for a stored device, with
\* start <= end and a range not entirely before the first or after the
\* last stored sample
C2_Case(p) ==
    /\ Returned(p, "Get")
    /\ call[p].deviceID \in DOMAIN Data
    /\ call[p].startTime <= call[p].endTime
    /\ LET s == Samples(call[p].deviceID)
       IN /\ Len(s) > 0
          /\ ~(call[p].endTime < s[1].Timestamp)
          /\ ~(call[p].startTime > s[Len(s)].Timestamp)

\* no error, the stored type, and exactly the stored samples with
\* start <= timestamp <= end, as one contiguous run of the stored sequence
C2_Exact(p) ==
    LET id == call[p].deviceID
        s == Samples(id)
        sl == ret[p].body.DataPoints
        want == SelectSeq(s, LAMBDA x : InRange(x, call[p].startTime,
                                                  call[p].endTime))
    IN /\ ret[p].err = NoError
       /\ ret[p].body.DeviceType = Data[id].DeviceType
       /\ Shown(ret[p].body) = want
       /\ sl.len > 0 =>
             /\ sl.arr = Data[id].DataPoints.arr
             /\ sl.off + sl.len <= Len(s)
             /\ \A k \in 1..sl.len : Shown(ret[p].body)[k] = s[sl.off + k]

\* C2 as stated: range-query exactness, and in particular a range that
\* starts before the first sample and ends at the k-th sample's timestamp
\* returns samples 0..k (k + 1 samples).
C2_AsStated ==
    \A p \in Procs : C2_Case(p) =>
        /\ C2_Exact(p)
        /\ LET s == Samples(call[p].deviceID)
           IN \A k \in 1..Len(s) :
                 (call[p].startTime < s[1].Timestamp
                    /\ call[p].endTime = s[k].Timestamp)
                 => Shown(ret[p].body) = SubSeq(s, 1, k)

\* C2 amended: range-query exactness, and in particular a range that starts
\* before the first sample and ends at the k-th sample's timestamp returns
\* samples 0..k', k' being the last sample with the k-th sample's timestamp
\* (k' = k when no later sample repeats that timestamp).
C2_RangeExact ==
    \A p \in Procs : C2_Case(p) =>
        /\ C2_Exact(p)
        /\ LET s == Samples(call[p].deviceID)
           IN \A k \in 1..Len(s) :
                 (call[p].startTime < s[1].Timestamp
                    /\ call[p].endTime = s[k].Timestamp
                    /\ \A j \in 1..Len(s) :
                          j > k => s[j].Timestamp # s[k].Timestamp)
                 => Shown(ret[p].body) = SubSeq(s, 1, k)

\* a query that starts before the first of three samples and ends at the
\* second one's timestamp has returned the first two
C2_Witness ==
    /\ C2_Case("p1")
    /\ LET s == Samples(call["p1"].deviceID)
       IN /\ Len(s) = 3
          /\ call["p1"].startTime < s[1].Timestamp
          /\ call["p1"].endTime = s[2].Timestamp
          /\ s[2].Timestamp < s[3].Timestamp
          /\ Shown(ret["p1"].body) = SubSeq(s, 1, 2)

\* ---------------------------------------------------------------- C3
\* C3: when GetTemperature has returned for a device and the range from the
\* least to the greatest timestamp recorded for it, it returned no error
\* and exactly the recorded samples (as a bag, values unchanged) in
\* non-decreasing timestamp order.
C3_RoundTrip ==
    \A p \in Procs :
        LET id == call[p].deviceID
            rec == BagToSet(recorded[id])
        IN (/\ Returned(p, "Get")
            /\ id \in Devices
            /\ rec # {}
            /\ \A x \in rec : InRange(x, call[p].startTime, call[p].endTime)
            /\ \E x \in rec : x.Timestamp = call[p].startTime
            /\ \E x \in rec : x.Timestamp = call[p].endTime)
           => /\ ret[p].err = NoError
              /\ SeqToBag(Shown(ret[p].body)) = recorded[id]
              /\ NonDecreasing(Shown(ret[p].body))

\* three samples recorded in falling timestamp order, two of them with
\* different temperatures, came back in rising order
C3_Witness ==
    /\ Returned("p1", "Get")
    /\ call["p1"].startTime = 1
    /\ call["p1"].endTime = 3
    /\ Shown(ret["p1"].body) = <<DataPoint(1, 21), DataPoint(2, 20), DataPoint(3, 21)>>
    /\ recorded[call["p1"].deviceID] = SeqToBag(Shown(ret["p1"].body))

\* ---------------------------------------------------------------- C4
\* goroutine p calls PostTemperature with an empty device ID or type
C4_InvalidPost(p) ==
    /\ pc[p] = "idle"
    /\ call'[p].op = "Post"
    /\ (call'[p].deviceID = "" \/ call'[p].deviceType = "")
    /\ PostCall(p, AllInputs)

\* C4: a PostTemperature call with an empty device ID or an empty device
\* type returns at once with the InvalidInput error of its case, the
\* empty-ID one when both are empty, and leaves the map, every device's type
\* and every device's samples as they were.
C4_ValidationBeforeMutation ==
    [][\A p \in Procs : C4_InvalidPost(p) =>
          /\ pc'[p] = "idle"
          /\ ret'[p].err = IF call'[p].deviceID = "" THEN ErrEmptyID
                                                     ELSE ErrEmptyType
          /\ Data' = Data
          /\ StoreView' = StoreView]_vars

\* with samples stored, a call with both the ID and the type empty has
\* returned the empty-ID error
C4_Witness ==
    /\ Returned("p1", "Post")
    /\ call["p1"].deviceID = ""
    /\ call["p1"].deviceType = ""
    /\ ret["p1"].err = ErrEmptyID
    /\ DOMAIN Data = Devices

\* ---------------------------------------------------------------- C5
\* C5 as stated: every GetTemperature call with a non-empty device ID and
\* end before start returns the invalid-range error, whether or not the
\* device has ever been recorded.
C5_AsStated ==
    \A p \in Procs :
        (/\ Returned(p, "Get")
         /\ call[p].deviceID # ""
         /\ call[p].endTime < call[p].startTime)
        => ret[p].err = ErrEndBeforeStart

\* C5 amended: a GetTemperature call with end before start returns the
\* invalid-range error for every device that has been recorded, whatever
\* samples it holds; for a non-empty ID never recorded it returns the
\* not-found error instead.
C5_InvalidRange ==
    \A p \in Procs :
        (/\ Returned(p, "Get")
         /\ call[p].deviceID # ""
         /\ call[p].endTime < call[p].startTime)
        => /\ ret[p].body = ZeroResponseBody
           /\ ret[p].err = IF recorded[call[p].deviceID] # EmptyBag
                           THEN ErrEndBeforeStart
                           ELSE ErrNoData

\* a falling range over a device holding three samples was refused
C5_Witness ==
    /\ Returned("p1", "Get")
    /\ call["p1"].endTime < call["p1"].startTime
    /\ Len(Samples(call["p1"].deviceID)) = 3
    /\ ret["p1"].err = ErrEndBeforeStart

\* ---------------------------------------------------------------- C6
\* C6: in every state the single caller's calls reach, when GetTemperature
\* has returned for a non-empty device ID for which no PostTemperature call
\* has succeeded, it returned the not-found error and the zero-valued body.
C6_UnknownDevice ==
    \A p \in Procs :
        (/\ Returned(p, "Get")
         /\ call[p].deviceID # ""
         /\ recorded[call[p].deviceID] = EmptyBag)
        => /\ ret[p].err = ErrNoData
           /\ ret[p].body = ZeroResponseBody

\* with three samples stored for another device, a query with a rising
\* range for a device never recorded came back not-found
C6_Witness ==
    /\ Returned("p1", "Get")
    /\ call["p1"].deviceID # ""
    /\ call["p1"].startTime < call["p1"].endTime
    /\ recorded[call["p1"].deviceID] = EmptyBag
    /\ ret["p1"].err = ErrNoData
    /\ \E id \in DOMAIN Data : Len(Samples(id)) = 3

\* ---------------------------------------------------------------- C7
\* where a PostTemperature call stands between Lock() returning and Unlock()
WriteSection == {"r_body", "r_assign", "r_unlock"}

\* goroutine q reads or writes the map or a device record in this step:
\* lines 51-67, line 69, line 81, lines 95-143
StoreAccess(q) ==
    /\ pc[q] \in {"r_body", "r_assign", "q_exists", "q_body"}
    /\ pc'[q] # pc[q]

\* C7: while a PostTemperature call is between acquiring and releasing the
\* write lock, no other call makes any access to the store, the existence
\* lookup of GetTemperature included.
C7_WriterExclusion ==
    [][\A q \in Procs : StoreAccess(q) =>
          \A w \in Procs \ {q} : pc[w] \notin WriteSection]_vars

\* ---------------------------------------------------------------- C8
\* C8: while a caller holds the result of a GetTemperature call, no step of
\* any other call changes the samples that result shows.
C8_NoAliasing ==
    [][\A p \in Procs :
          (/\ Returned(p, "Get")
           /\ pc'[p] = "idle"
           /\ ret'[p] = ret[p])
          => Elems(heap', ret[p].body.DataPoints) = Shown(ret[p].body)]_vars

\* ---------------------------------------------------------------- C9
\* the steps of goroutine p inside a call that the scheduler must
\* eventually run; the fatal error is no step of p's
Progress(p) ==
    \/ PostLockWait(p)
    \/ PostBody(p)
    \/ PostAssign(p)
    \/ PostUnlock(p)
    \/ GetExists(p)
    \/ GetRLock(p)
    \/ GetRLockWait(p)
    \/ GetBody(p)

\* fair scheduling of the goroutines; sync.Mutex's starvation mode hands w
\* to a writer that keeps finding it taken
FairSpec ==
    /\ Spec
    /\ \A p \in Procs : WF_vars(Progress(p)) /\ SF_vars(PostLock(p))

\* C9: under fair scheduling every started call eventually returns, with
\* the lock released.
C9_Completion ==
    \A p \in Procs : (pc[p] # "idle") ~> (pc[p] = "idle")

\* what remains of C9 once the runtime's fatal error is set aside: every
\* started call returns unless the process has died
CompletionUnlessFatal ==
    \A p \in Procs : (pc[p] # "idle") ~> (pc[p] = "idle" \/ fatal)

\* --------------------------------------------------------------- C10
\* a PostTemperature call has announced itself as writer and not yet unlocked
WriterActive == \E w \in Procs : pc[w] \in {"r_wait"} \cup WriteSection

\* C10: a GetTemperature call never waits for the read lock on account of
\* other GetTemperature calls: whenever calls wait in RLock(), either a
\* PostTemperature call is pending or holds the lock, or the lock has been
\* released to every one of them already.
C10_ReaderSharing ==
    LET waiters == {q \in Procs : pc[q] = "q_wait"}
    IN waiters # {} =>
          \/ WriterActive
          \/ mutex.readerSem >= Cardinality(waiters)

\* every goroutine holds the read lock at the same time
C10_Witness ==
    /\ \A p \in Procs : pc[p] = "q_body"
    /\ mutex.readerCount = Cardinality(Procs)

\* --------------------------------------------------------------- C11
\* a PostTemperature call for device id has returned nil
Recorded(id) == recorded[id] # EmptyBag

\* C11: every device that is a key of the store has at least one sample,
\* and, whenever no PostTemperature call stands between its map assignment
\* and its return, a device is a key of the store exactly if a
\* PostTemperature call for it has returned nil.
C11_Existence ==
    /\ \A id \in DOMAIN Data : Len(Samples(id)) > 0
    /\ DOMAIN Data \subseteq Devices
    /\ (\A p \in Procs : pc[p] # "r_unlock")
          => \A id \in Devices : id \in DOMAIN Data <=> Recorded(id)

\* one device has been recorded, and a PostTemperature call for the other
\* was rejected for its empty type and left it out of the store
C11_Witness ==
    /\ Returned("p1", "Post")
    /\ call["p1"].deviceID = "d2"
    /\ ret["p1"].err = ErrEmptyType
    /\ DOMAIN Data = {"d1"}
    /\ Recorded("d1")

\* --------------------------------------------------------------- C12
\* C12: each device's stored type is the type given to the most recent
\* PostTemperature call that succeeded for it (the call about to return nil
\* counting as the most recent), and a GetTemperature call that has returned
\* samples reports that type.
C12_LastWriteWins ==
    /\ \A id \in DOMAIN Data :
          LET w == {p \in Procs : pc[p] = "r_unlock" /\ call[p].deviceID = id}
          IN /\ w = {} => Data[id].DeviceType = lastType[id]
             /\ \A p \in w : Data[id].DeviceType = call[p].deviceType
    /\ \A p \in Procs :
          (Returned(p, "Get") /\ ret[p].body.DataPoints.len > 0)
          => ret[p].body.DeviceType = lastType[call[p].deviceID]

\* a PostTemperature call with type t2, for a device last recorded with
\* type t1, has replaced the stored type and is about to return
C12_Witness ==
    /\ pc["p1"] = "r_unlock"
    /\ call["p1"].deviceType = "t2"
    /\ lastType[call["p1"].deviceID] = "t1"
    /\ Data[call["p1"].deviceID].DeviceType = "t2"
    /\ Len(Samples(call["p1"].deviceID)) = 2

\* --------------------------------------------------------------- C13
\* goroutine p's GetTemperature has returned for a stored device and a range
\* with start <= end that lies entirely before the first or entirely after
\* the last stored sample
OutsideCase(p) ==
    /\ Returned(p, "Get")
    /\ call[p].deviceID \in DOMAIN Data
    /\ call[p].startTime <= call[p].endTime
    /\ LET s == Samples(call[p].deviceID)
       IN /\ Len(s) > 0
          /\ \/ call[p].endTime < s[1].Timestamp
             \/ call[p].startTime > s[Len(s)].Timestamp

\* C13: a GetTemperature call for a stored device with start <= end whose
\* range lies entirely before the first or entirely after the last stored
\* sample returns no error and an empty sample sequence.
C13_DisjointRange ==
    \A p \in Procs : OutsideCase(p) =>
        /\ ret[p].err = NoError
        /\ ret[p].body.DataPoints.len = 0
        /\ Shown(ret[p].body) = <<>>

\* a query whose range begins after the last of two stored samples has
\* returned
C13_Witness ==
    /\ OutsideCase("p1")
    /\ LET s == Samples(call["p1"].deviceID)
       IN Len(s) = 2 /\ call["p1"].startTime > s[2].Timestamp
    /\ ret["p1"].err = NoError

\* --------------------------------------------------------------- C14
\* goroutine p's GetTemperature has returned for a stored device and a range
\* whose start and end both equal the timestamp of a stored sample
C14_Case(p) ==
    /\ Returned(p, "Get")
    /\ call[p].deviceID \in DOMAIN Data
    /\ call[p].startTime = call[p].endTime
    /\ \E i \in 1..Len(Samples(call[p].deviceID)) :
          Samples(call[p].deviceID)[i].Timestamp = call[p].startTime

\* the stored samples of goroutine p's device with the timestamp p asked for
C14_AtTimestamp(p) ==
    SelectSeq(Samples(call[p].deviceID),
              LAMBDA x : x.Timestamp = call[p].startTime)

\* C14 as stated: for every stored timestamp t, GetTemperature(device, t, t)
\* returns no error and exactly one sample, the one stored with t.
C14_AsStated ==
    \A p \in Procs : C14_Case(p) =>
        /\ ret[p].err = NoError
        /\ Len(Shown(ret[p].body)) = 1
        /\ Shown(ret[p].body)[1].Timestamp = call[p].startTime

\* C14 amended: for every stored timestamp t, GetTemperature(device, t, t)
\* returns no error and exactly the stored samples with timestamp t, in
\* stored order: at least one, and one only when t is stored once.
C14_Inclusive ==
    \A p \in Procs : C14_Case(p) =>
        /\ ret[p].err = NoError
        /\ Shown(ret[p].body) = C14_AtTimestamp(p)
        /\ Len(Shown(ret[p].body)) >= 1
        /\ Cardinality({i \in 1..Len(Samples(call[p].deviceID)) :
               Samples(call[p].deviceID)[i].Timestamp = call[p].startTime}) = 1
           => Len(Shown(ret[p].body)) = 1

\* asked for the timestamp of the middle one of three samples with rising
\* timestamps, the query has returned that sample alone
C14_Witness ==
    /\ C14_Case("p1")
    /\ LET s == Samples(call["p1"].deviceID)
       IN /\ Len(s) = 3
          /\ s[1].Timestamp < s[2].Timestamp
          /\ s[2].Timestamp < s[3].Timestamp
          /\ call["p1"].startTime = s[2].Timestamp
          /\ Shown(ret["p1"].body) = <<s[2]>>

\* --------------------------------------------------------------- C15
\* goroutine p's GetTemperature has returned for a stored device and a range
\* with start <= end that reaches into the span of the stored timestamps
\* and holds none of them
GapCase(p) ==
    /\ Returned(p, "Get")
    /\ call[p].deviceID \in DOMAIN Data
    /\ call[p].startTime <= call[p].endTime
    /\ LET s == Samples(call[p].deviceID)
       IN /\ Len(s) > 0
          /\ call[p].endTime >= s[1].Timestamp
          /\ call[p].startTime <= s[Len(s)].Timestamp
          /\ \A i \in 1..Len(s) :
                ~InRange(s[i], call[p].startTime, call[p].endTime)

\* C15: an empty success has one of two shapes: a range entirely outside
\* the stored span returns the zero-valued ResponseBody (no device ID, no
\* type, nil samples); a range inside the span that falls in a gap returns
\* an empty sample sequence together with the device's ID and stored type.
C15_TwoEmptyShapes ==
    \A p \in Procs :
        /\ OutsideCase(p) =>
              /\ ret[p].err = NoError
              /\ ret[p].body = ZeroResponseBody
        /\ GapCase(p) =>
              /\ ret[p].err = NoError
              /\ ret[p].body.DeviceID = call[p].deviceID
              /\ ret[p].body.DeviceID # ""
              /\ ret[p].body.DeviceType = Data[call[p].deviceID].DeviceType
              /\ ret[p].body.DeviceType # ""
              /\ ret[p].body.DataPoints.len = 0
              /\ ret[p].body.DataPoints.arr # NilArr

\* a query for the one timestamp between two stored samples has returned
\* the device's ID and type with no samples
C15_Witness ==
    /\ GapCase("p1")
    /\ Len(Samples(call["p1"].deviceID)) = 2
    /\ call["p1"].startTime = 2
    /\ call["p1"].endTime = 2
    /\ ret["p1"].body.DeviceID = call["p1"].deviceID
    /\ Shown(ret["p1"].body) = <<>>

\* --------------------------------------------------------------- C16
\* the error the validation of a GetTemperature call with arguments c owes,
\* by the order of the checks: empty ID, then existence, then the range
C16_Failure(c) ==
    IF c.deviceID = "" THEN ErrEmptyID
    ELSE IF c.deviceID \notin DOMAIN Data THEN ErrNoData
    ELSE IF c.endTime < c.startTime THEN ErrEndBeforeStart
    ELSE NoError

\* C16: every step of a GetTemperature call up to the end of its validation
\* leaves the mutex untouched; a call that fails validation returns from
\* there, with the zero body and the error of the first failing check in
\* the order empty ID, existence, range (so the empty ID is reported
\* whatever the range, and a device never recorded with end < start is
\* reported as not found), and never goes on to RLock(); a call that passes
\* never returns from there.
C16_ValidationOrder ==
    [][\A p \in Procs :
          (call'[p].op = "Get" /\ pc[p] \in {"idle", "q_exists"}) =>
              /\ mutex' = mutex
              /\ pc'[p] \in {"idle", "q_exists", "q_rlock"}
              /\ IF C16_Failure(call'[p]) # NoError
                 THEN /\ pc'[p] # "q_rlock"
                      /\ (call'[p].deviceID = "" \/ pc[p] = "q_exists")
                            => pc'[p] = "idle"
                      /\ pc'[p] = "idle" =>
                            ret'[p] = [body |-> ZeroResponseBody,
                                       err |-> C16_Failure(call'[p])]
                 ELSE pc'[p] # "idle"]_vars

\* with samples stored for another device, a query with end < start for a
\* device never recorded has returned not-found, the mutex in its zero state
C16_Witness ==
    /\ Returned("p1", "Get")
    /\ call["p1"].deviceID # ""
    /\ call["p1"].deviceID \notin DOMAIN Data
    /\ call["p1"].endTime < call["p1"].startTime
    /\ ret["p1"].err = ErrNoData
    /\ DOMAIN Data # {}
    /\ mutex.readerCount = 0

\* --------------------------------------------------------------- C17
\* C17: whenever no PostTemperature call holds the write lock, each device
\* stores exactly the bag of the samples given to the PostTemperature calls
\* that returned nil for it, so that each such call added its one sample
\* and no call took a sample away; and every PostTemperature call with a
\* non-empty ID and type has returned nil, the calls for a device that
\* already held MaxDataPoints samples among them.
C17_UncappedGrowth ==
    /\ (\A p \in Procs : pc[p] \notin WriteSection)
          => \A id \in Devices : SeqToBag(Samples(id)) = recorded[id]
    /\ \A p \in Procs :
          (/\ Returned(p, "Post")
           /\ call[p].deviceID # ""
           /\ call[p].deviceType # "")
          => ret[p].err = NoError

\* a PostTemperature call for a device that held MaxDataPoints samples has
\* returned nil, and the device holds one sample more
C17_Witness ==
    /\ Returned("p1", "Post")
    /\ ret["p1"].err = NoError
    /\ call["p1"].deviceID \in DOMAIN Data
    /\ Len(Samples(call["p1"].deviceID)) = MaxDataPoints + 1
    /\ BagCardinality(recorded[call["p1"].deviceID]) = MaxDataPoints + 1

\* --------------------------------------------------------------- C18
\* C18: for every stored device with samples and every range with
\* start <= end that is not entirely outside the stored data, the two
\* binary searches of GetTemperature give 0 <= startIndex <= endIndex <=
\* len(samples); and no GetTemperature call has ended in an out-of-range
\* slice expression.
C18_SliceBounds ==
    /\ \A id \in DOMAIN Data :
          LET s == Samples(id)
              n == Len(s)
          IN \A a, b \in Times :
                (n > 0 /\ a <= b /\ ~OutsideRange(s, a, b)) =>
                    LET startIndex == Search(n, StartPred(s, a))
                        endIndex == Search(n, EndPred(s, b))
                    IN /\ 0 <= startIndex
                       /\ startIndex <= endIndex
                       /\ endIndex <= n
    /\ \A p \in Procs : Returned(p, "Get") => ret[p].err # ErrPanic

\* both searches have run on three samples with rising timestamps and the
\* query has returned the last two: startIndex = 1, endIndex = 3
C18_Witness ==
    /\ Returned("p1", "Get")
    /\ ret["p1"].err = NoError
    /\ LET s == Samples(call["p1"].deviceID)
       IN /\ Len(s) = 3
          /\ s[1].Timestamp < s[2].Timestamp
          /\ s[2].Timestamp < s[3].Timestamp
          /\ call["p1"].startTime = s[2].Timestamp
          /\ call["p1"].endTime = s[3].Timestamp
    /\ ret["p1"].body.DataPoints.off = 1
    /\ ret["p1"].body.DataPoints.len = 2

\* --------------------------------------------------------------- C19
\* the devices a PostTemperature call is writing in this step: lines 51-69
Written == {call[p].deviceID : p \in {q \in Procs : pc[q] \in {"r_body", "r_assign"}}}

\* C19: no step removes a device from the store; a step adds none but the
\* device of a PostTemperature call past its validation, and leaves the type
\* and samples of every other device as they are; every step of a
\* GetTemperature call, and of a rejected PostTemperature call, leaves the
\* whole store as it is.  (A step that changes neither the map nor an array
\* changes nothing of the store.)
C19_Frame ==
    [][\/ Data' = Data /\ heap' = heap
       \/ /\ DOMAIN Data \subseteq DOMAIN Data'
          /\ (DOMAIN Data') \ (DOMAIN Data) \subseteq Written
          /\ \A id \in (DOMAIN Data) \ Written :
                StoreView'[id] = StoreView[id]
          /\ Written = {} => StoreView' = StoreView]_vars

\* a first PostTemperature call for one device has returned nil while the
\* other device holds two samples
C19_Witness ==
    /\ Returned("p1", "Post")
    /\ ret["p1"].err = NoError
    /\ DOMAIN Data = Devices
    /\ Len(Samples(call["p1"].deviceID)) = 1
    /\ \E id \in Devices \ {call["p1"].deviceID} : Len(Samples(id)) = 2

\* --------------------------------------------------------------- C20
\* GetTemperature, lines 74-143, run in one step with arguments c against
\* map D and heap h
AtomicGet(D, h, c) ==
    IF c.deviceID = ""
    THEN [body |-> ZeroResponseBody, err |-> ErrEmptyID]
    ELSE LET err == ValidateGet(c.deviceID \in DOMAIN D, c.startTime, c.endTime)
         IN IF err # NoError
            THEN [body |-> ZeroResponseBody, err |-> err]
            ELSE GetLocked(h, D, c.deviceID, c.startTime, c.endTime)

\* the map at this instant: as it is, or, inside a map assignment of a
\* PostTemperature call that has not returned yet, with that entry written
MapsNow == {Data} \cup {MapSet(Data, call[q].deviceID, local[q]) : q \in MapWriters}

====
